---- MODULE Spec2Model ----
(***************************************************************************)
(* Model of the notebooks of PytorchStarter.                               *)
(*                                                                         *)
(* Text/12.GeneratingNamesRNN/char_rnn_generation_tutorial.ipynb is the    *)
(* state machine of specification Spec: the cells run top to bottom (data  *)
(* loading, the training loop with train, then calls of sample).           *)
(* SpecLines exercises the pure functions readLines, inputTensor and       *)
(* targetTensor over every short file content.                             *)
(*                                                                         *)
(* Abstractions.  Floating point tensors of the network are not computed:  *)
(*   - the output of rnn.forward is represented by what the callers read   *)
(*     from it: its per-step loss (train) and its arg-max topi (sample),   *)
(*     both chosen nondeterministically (random initialisation, Dropout);  *)
(*   - the hidden state is a symbolic term: the sequence of                *)
(*     (category, input) pairs folded into it since initHidden, each       *)
(*     0/1 row kept as the set of positions of its 1s;                     *)
(*   - a parameter is one integer, in units of 1/learning_rate.den, and    *)
(*     a gradient is one integer per parameter;                            *)
(*   - losses are exact rationals <<numerator, denominator>>.              *)
(***************************************************************************)
EXTENDS Integers, Sequences, FiniteSets, TLC

VARIABLES
    fs,                 \* the files matched by glob: <<path, content>> pairs
    pc,                 \* position of the notebook's execution
    todo,               \* files the loading loop has not visited yet
    all_categories,     \* list of categories
    category_lines,     \* category -> list of lines
    n_categories,
    rnn,                \* the network: its parameters and their gradients
    iter,               \* loop variable of the training loop
    all_losses,
    total_loss,
    category,           \* argument / local of the running call
    line,               \* the line drawn by randomTrainingPair
    category_tensor,
    input_line_tensor,
    target_line_tensor,
    input,              \* sample: the tensor of the current letter
    hidden,
    loss,               \* train: running loss of the call
    i,                  \* timestep of the running train / sample call
    pidx,               \* train: position in rnn.parameters()
    output_name,
    start_letter,       \* argument of the running sample call
    \* history variables (observers, never read by the program)
    fwd,                \* forward passes of the running call: the arguments
                        \* and the hidden state returned
    tops,               \* sample: topi of every step of the running call
    h_losses,           \* loss returned by every finished train call
    h_call,             \* train: what the running call has done so far, the
                        \* parameters at its start, the gradient of its loss
    \* Text/14.NLP/sequence_models_tutorial.ipynb (a notebook of its own)
    pc2,                \* position of that notebook's execution
    training_data,      \* list of (sentence, tags) pairs
    word_to_ix,         \* word -> index
    sent_i,             \* vocabulary loop: the sentence being read
    word_i,             \* vocabulary loop: the next word of that sentence
    model,              \* the LSTMTagger
    epoch,              \* training loop: the running epoch
    pair_i,             \* training loop: the next pair of training_data
    tag_scores,         \* result of the last forward pass of the model
    lstm_inputs,        \* inputs of the LSTM example
    lstm_hidden,        \* hidden of the LSTM example
    lstm_out,           \* out of the LSTM example
    step_i,             \* LSTM example: the next element of the loop
    \* history variables of that notebook
    h_pairs,            \* pairs a forward pass was run on, with their epoch
    h_steps,            \* calls of optimizer.step, with epoch and pair
    h_outs,             \* out of every step of the element-by-element loop
    h_init              \* initial hidden of the loop and of the whole call

nlp_vars == <<pc2, training_data, word_to_ix, sent_i, word_i, model, epoch,
              pair_i, tag_scores, lstm_inputs, lstm_hidden, lstm_out, step_i,
              h_pairs, h_steps, h_outs, h_init>>

gen_vars == <<fs, pc, todo, all_categories, category_lines, n_categories, rnn,
              iter, all_losses, total_loss, category, line, category_tensor,
              input_line_tensor, target_line_tensor, input, hidden, loss, i,
              pidx, output_name, start_letter, fwd, tops, h_losses, h_call>>

vars == <<gen_vars, nlp_vars>>

-----------------------------------------------------------------------------
(* Bounds of the model *)

MaxFiles == 2       \* files matched by glob
MaxFileLen == 4     \* SpecLines: characters of a file content
MaxBranch == 2      \* sample steps at which the arg-max letter varies
n_iters == 4        \* 100000 in the notebook, scaled down
plot_every == 2     \* 500 in the notebook, scaled down

-----------------------------------------------------------------------------
(* Constants of the notebook *)

max_length == 20

learning_rate == [num |-> 5, den |-> 10000]

all_letters ==
    <<"a","b","c","d","e","f","g","h","i","j","k","l","m",
      "n","o","p","q","r","s","t","u","v","w","x","y","z",
      "A","B","C","D","E","F","G","H","I","J","K","L","M",
      "N","O","P","Q","R","S","T","U","V","W","X","Y","Z",
      " ",".",",",";","'","-">>

n_letters == Len(all_letters) + 1

\* rnn.parameters(): weight and bias of i2h, i2o, o2o, in definition order
Parameters ==
    <<"i2h.weight", "i2h.bias", "i2o.weight", "i2o.bias",
      "o2o.weight", "o2o.bias">>

-----------------------------------------------------------------------------
(* Python built-ins used by the notebook *)

Range(s) == {s[k] : k \in DOMAIN s}

\* str.find: 0-based index of the first occurrence, -1 when absent
Find(s, c) ==
    IF c \in Range(s)
    THEN (CHOOSE k \in DOMAIN s : s[k] = c /\ \A j \in 1..(k-1) : s[j] # c) - 1
    ELSE -1

\* list.index for an element that is in the list
Index(s, c) == Find(s, c)

\* x[k] = v on a Python sequence: a negative k counts from the end
SetItem(s, k, v) ==
    LET pos == IF k < 0 THEN Len(s) + k + 1 ELSE k + 1
    IN  [s EXCEPT ![pos] = v]

Zeros(n) == [k \in 1..n |-> 0]

Whitespace == {" ", "\n"}

RECURSIVE LStrip(_)
LStrip(s) ==
    IF s # <<>> /\ Head(s) \in Whitespace THEN LStrip(Tail(s)) ELSE s

RECURSIVE RStrip(_)
RStrip(s) ==
    IF s # <<>> /\ s[Len(s)] \in Whitespace
    THEN RStrip(SubSeq(s, 1, Len(s) - 1))
    ELSE s

\* str.strip()
Strip(s) == LStrip(RStrip(s))

\* str.split(sep): always at least one (possibly empty) piece
RECURSIVE Split(_, _)
Split(s, sep) ==
    IF sep \notin Range(s)
    THEN <<s>>
    ELSE LET k == Find(s, sep) + 1
         IN  <<SubSeq(s, 1, k - 1)>> \o Split(SubSeq(s, k + 1, Len(s)), sep)

\* unicodedata.normalize('NFD', c) of one character
NFD(c) ==
    IF c = "e_acute" THEN <<"e", "combining_acute">> ELSE <<c>>

\* unicodedata.category(c), as far as unicodeToAscii needs it
UnicodeCategory(c) == IF c = "combining_acute" THEN "Mn" ELSE "other"

RECURSIVE Normalize(_)
Normalize(s) ==
    IF s = <<>> THEN <<>> ELSE NFD(Head(s)) \o Normalize(Tail(s))

RECURSIVE Keep(_)
Keep(s) ==
    IF s = <<>> THEN <<>>
    ELSE (IF UnicodeCategory(Head(s)) # "Mn" /\ Head(s) \in Range(all_letters)
          THEN <<Head(s)>> ELSE <<>>) \o Keep(Tail(s))

unicodeToAscii(s) == Keep(Normalize(s))

readLines(text) ==
    LET lines == Split(Strip(text), "\n")
    IN  [k \in DOMAIN lines |-> unicodeToAscii(lines[k])]

\* os.path.basename on a path of tokens: what follows the last "/"
RECURSIVE Basename(_)
Basename(p) ==
    IF "/" \notin Range(p) THEN p
    ELSE Basename(SubSeq(p, Find(p, "/") + 2, Len(p)))

\* position (1-based) of the last "." of p, 0 when there is none
LastDot(p) ==
    IF "." \notin Range(p) THEN 0
    ELSE CHOOSE k \in DOMAIN p :
            p[k] = "." /\ \A j \in (k+1)..Len(p) : p[j] # "."

\* os.path.splitext(p)[0]: p without its extension; leading dots are no extension
SplitextRoot(p) ==
    LET k == LastDot(p)
    IN  IF k = 0 \/ \A j \in 1..(k-1) : p[j] = "." THEN p
        ELSE SubSeq(p, 1, k - 1)

-----------------------------------------------------------------------------
(* Tensors of the notebook *)

\* categoryTensor that always sets position 0: tensor[0][0] = 1
categoryTensor_First(cat) == <<SetItem(Zeros(n_categories), 0, 1)>>

categoryTensor(cat) ==
    LET li == Index(all_categories, cat)
    IN  <<SetItem(Zeros(n_categories), li, 1)>>

inputTensor(ln) ==
    [li \in 1..Len(ln) |->
        <<SetItem(Zeros(n_letters), Find(all_letters, ln[li]), 1)>>]

\* targetTensor taking the letters from position 0 on: range(0, len(line))
targetTensor_FromFirst(ln) ==
    LET letter_indexes == [k \in 1..Len(ln) |-> Find(all_letters, ln[k])]
    IN  Append(letter_indexes, n_letters - 1)

targetTensor(ln) ==
    LET letter_indexes == [k \in 1..(Len(ln) - 1) |-> Find(all_letters, ln[k + 1])]
    IN  Append(letter_indexes, n_letters - 1)

\* tensor.size(0)
Size0(t) == Len(t)

-----------------------------------------------------------------------------
(* Exact arithmetic of the losses: a rational is <<numerator, denominator>> *)

RECURSIVE GCD(_, _)
GCD(a, b) == IF b = 0 THEN a ELSE GCD(b, a % b)

Rat(n, d) == LET g == GCD(n, d) IN <<n \div g, d \div g>>

RatAdd(x, y) == Rat(x[1] * y[2] + y[1] * x[2], x[2] * y[2])

RatDiv(x, n) == Rat(x[1], x[2] * n)

RECURSIVE RatSum(_)
RatSum(s) == IF s = <<>> THEN <<0, 1>> ELSE RatAdd(Head(s), RatSum(Tail(s)))

-----------------------------------------------------------------------------
(* The network *)

ParamSet == Range(Parameters)

\* RNN.__init__: the parameters, as offsets from their random initial values
NewRNN == [defined |-> TRUE,
           params |-> [p \in ParamSet |-> 0],
           grad |-> [p \in ParamSet |-> 0]]

NoRNN == [defined |-> FALSE,
          params |-> [p \in ParamSet |-> 0],
          grad |-> [p \in ParamSet |-> 0]]

\* the hidden state left by the previous call instead of a fresh one
initHidden_Carried == hidden

\* RNN.initHidden: the all-zero hidden state
initHidden == <<>>

\* torch.cat((category, input, hidden), 1), symbolically: a one-hot row is
\* kept as the set of positions of its 1s
Hot(t) == {k \in DOMAIN t[1] : t[1][k] = 1}

\* RNN.forward, hidden part: i2h of (category, input, hidden) combined
ForwardHidden(cat, inp, hid) == Append(hid, <<Hot(cat), Hot(inp)>>)

\* rnn.zero_grad()
ZeroGrad(net) == [net EXCEPT !.grad = [p \in ParamSet |-> 0]]

\* loss.backward(): the gradient g of this loss is accumulated into p.grad
Backward(net, g) == [net EXCEPT !.grad = [p \in ParamSet |-> net.grad[p] + g[p]]]

\* p.data.add_(learning_rate, p.grad.data): a step up the gradient
AddScaledGrad_Ascent(net, p) ==
    [net EXCEPT !.params[p] = net.params[p] + learning_rate.num * net.grad[p]]

\* p.data.add_(-learning_rate, p.grad.data), in units of 1/learning_rate.den
AddScaledGrad(net, p) ==
    [net EXCEPT !.params[p] = net.params[p] - learning_rate.num * net.grad[p]]

\* gradients a backward pass may produce
Gradients == {[p \in ParamSet |-> g] : g \in {1, 2}}

\* losses the criterion may evaluate to
StepLosses == {0, 1}

\* what the network may rank highest at step k of sample: EOS, or a letter
\* ("a" or "b" during the first MaxBranch steps, "a" later)
TopChoices(k) ==
    (IF k < MaxBranch THEN {0, 1} ELSE {0}) \cup {n_letters - 1}

-----------------------------------------------------------------------------
(* The files on disk *)

NamesDir == <<"data", "/", "names", "/">>

Files ==
    << <<NamesDir \o <<"French", ".", "txt">>,
         <<"a", "b", "\n", "e_acute", "\n">> >>,
       <<NamesDir \o <<"Italian", ".", "txt">>,
         <<"b", "\n", "\n", "c">> >>,
       <<NamesDir \o <<"St", ".", "Lucian", ".", "txt">>,
         <<"A", "b">> >> >>

\* what glob.glob may return: any files of the directory, in any order
Listings ==
    UNION {{s \in [1..n -> Range(Files)] :
                \A j, k \in 1..n : j # k => s[j] # s[k]} : n \in 0..MaxFiles}

StartLetters == {"A", "b"}

\* characters of the file contents of SpecLines
RawChars == {"a", "B", "e_acute", "1", "\n", " "}

\* SpecLines: one file, with any content of at most MaxFileLen characters
OneFileListings ==
    {<< <<NamesDir \o <<"French", ".", "txt">>, text>> >> :
        text \in UNION {[1..n -> RawChars] : n \in 0..MaxFileLen}}

NoCall == [events |-> <<>>, params0 |-> NoRNN.params, g |-> NoRNN.grad]

Event(op, arg, val) == [op |-> op, arg |-> arg, val |-> val]

-----------------------------------------------------------------------------
(* Cell 1: data loading *)

NoLines == [c \in {} |-> <<>>]

\* the name-generation notebook before its first cell
GenStart(listings) ==
    /\ fs \in listings
    /\ pc = "load"
    /\ todo = fs
    /\ all_categories = <<>>
    /\ category_lines = NoLines
    /\ n_categories = 0
    /\ rnn = NoRNN
    /\ iter = 0
    /\ all_losses = <<>>
    /\ total_loss = <<0, 1>>
    /\ category = <<>>
    /\ line = <<>>
    /\ category_tensor = <<>>
    /\ input_line_tensor = <<>>
    /\ target_line_tensor = <<>>
    /\ input = <<>>
    /\ hidden = <<>>
    /\ loss = 0
    /\ i = 0
    /\ pidx = 0
    /\ output_name = <<>>
    /\ start_letter = ""
    /\ fwd = <<>>
    /\ tops = <<>>
    /\ h_losses = <<>>
    /\ h_call = NoCall

\* LSTMTagger before its construction
NoModel == [defined |-> FALSE, vocab_size |-> 0, tagset_size |-> 0,
            hidden |-> <<>>, params |-> 0, grad |-> 0]

\* the sequence_models notebook before its first cell
NlpStart ==
    /\ pc2 = "start"
    /\ word_to_ix = NoLines
    /\ sent_i = 0
    /\ word_i = 0
    /\ model = NoModel
    /\ epoch = 0
    /\ pair_i = 0
    /\ tag_scores = <<>>
    /\ lstm_hidden = <<>>
    /\ lstm_out = <<>>
    /\ step_i = 0
    /\ h_pairs = <<>>
    /\ h_steps = <<>>
    /\ h_outs = <<>>
    /\ h_init = <<>>

\* a run of the name-generation notebook; the other notebook is not run
InitWith(listings) ==
    /\ GenStart(listings)
    /\ NlpStart
    /\ training_data = <<>>
    /\ lstm_inputs = <<>>

Init == InitWith(Listings)

\* category of a file cut at the first dot: basename(filename).split('.')[0]
CategoryOf_FirstDot(filename) ==
    LET b == Basename(filename) IN SubSeq(b, 1, Find(b, "."))

\* category of a file: os.path.splitext(os.path.basename(filename))[0]
CategoryOf(filename) == SplitextRoot(Basename(filename))

\* category_lines[cat] = lines
SetLines(cl, cat, lines) ==
    [c \in DOMAIN cl \cup {cat} |-> IF c = cat THEN lines ELSE cl[c]]

\* one iteration of: for filename in findFiles('data/names/*.txt')
LoadFile ==
    /\ pc = "load"
    /\ todo # <<>>
    /\ LET filename == Head(todo)[1]
           cat == CategoryOf(filename)
       IN  /\ category' = cat
           /\ all_categories' = Append(all_categories, cat)
           /\ category_lines' = SetLines(category_lines, cat, readLines(Head(todo)[2]))
    /\ todo' = Tail(todo)
    /\ UNCHANGED <<nlp_vars, fs, pc, n_categories, rnn, iter, all_losses, total_loss,
                   line, category_tensor, input_line_tensor,
                   target_line_tensor, input, hidden, loss, i, pidx,
                   output_name, start_letter, fwd, tops, h_losses,
                   h_call>>

\* LoadDone without the check for data
LoadDone_NoCheck ==
    /\ pc = "load"
    /\ todo = <<>>
    /\ n_categories' = Len(all_categories)
    /\ pc' = "loaded"
    /\ UNCHANGED <<nlp_vars, fs, todo, all_categories, category_lines, rnn, iter,
                   all_losses, total_loss, category, line, category_tensor,
                   input_line_tensor, target_line_tensor, input, hidden,
                   loss, i, pidx, output_name, start_letter, fwd, tops, h_losses, h_call>>

\* after the loop: n_categories = len(all_categories) and the check for data
LoadDone ==
    /\ pc = "load"
    /\ todo = <<>>
    /\ n_categories' = Len(all_categories)
    /\ pc' = IF Len(all_categories) = 0 THEN "RuntimeError" ELSE "loaded"
    /\ UNCHANGED <<nlp_vars, fs, todo, all_categories, category_lines, rnn, iter,
                   all_losses, total_loss, category, line, category_tensor,
                   input_line_tensor, target_line_tensor, input, hidden,
                   loss, i, pidx, output_name, start_letter, fwd,
                   tops, h_losses, h_call>>

-----------------------------------------------------------------------------
(* The training cell *)

\* rnn = RNN(n_letters, 128, n_letters); all_losses = []; total_loss = 0
StartTraining ==
    /\ pc = "loaded"
    /\ rnn' = NewRNN
    /\ all_losses' = <<>>
    /\ total_loss' = <<0, 1>>
    /\ pc' = "loop"
    /\ UNCHANGED <<nlp_vars, fs, todo, all_categories, category_lines, n_categories,
                   iter, category, line, category_tensor, input_line_tensor,
                   target_line_tensor, input, hidden, loss, i, pidx,
                   output_name, start_letter, fwd, tops, h_losses,
                   h_call>>

\* loop head with an iteration left: randomTrainingExample() for the call of train
\* (random.randint draws the category among positions CI, the line among LI)
DrawExample(CI, LI) ==
    /\ pc = "loop"
    /\ iter < n_iters
    /\ iter' = iter + 1
    /\ \E ci \in DOMAIN all_categories \cap CI :
         \E li \in DOMAIN category_lines[all_categories[ci]] \cap LI :
            LET cat == all_categories[ci]
                ln == category_lines[cat][li]
            IN  /\ category' = cat
                /\ line' = ln
                /\ category_tensor' = categoryTensor(cat)
                /\ input_line_tensor' = inputTensor(ln)
                /\ target_line_tensor' = targetTensor(ln)
    /\ pc' = "train"
    /\ UNCHANGED <<nlp_vars, fs, todo, all_categories, category_lines, n_categories,
                   rnn, all_losses, total_loss, input, hidden, loss, i, pidx,
                   output_name, start_letter, fwd, tops, h_losses,
                   h_call>>

\* train, up to the loop: hidden = rnn.initHidden(); rnn.zero_grad(); loss = 0
TrainBegin ==
    /\ pc = "train"
    /\ hidden' = initHidden
    /\ rnn' = ZeroGrad(rnn)
    /\ loss' = 0
    /\ i' = 0
    /\ fwd' = <<>>
    /\ h_call' = [events |-> <<Event("zero_grad", 0, 0)>>,
                  params0 |-> rnn.params,
                  g |-> NoRNN.grad]
    /\ pc' = "train_loop"
    /\ UNCHANGED <<nlp_vars, fs, todo, all_categories, category_lines, n_categories,
                   iter, all_losses, total_loss, category, line,
                   category_tensor, input_line_tensor, target_line_tensor,
                   input, pidx, output_name, start_letter, tops,
                   h_losses>>

\* one timestep of train: forward pass, criterion, loss += l
\* (the criterion evaluates to a loss in L)
TrainStep(L) ==
    /\ pc = "train_loop"
    /\ i < Size0(input_line_tensor)
    /\ hidden' = ForwardHidden(category_tensor, input_line_tensor[i + 1], hidden)
    /\ fwd' = Append(fwd, [category |-> category_tensor,
                           input |-> input_line_tensor[i + 1],
                           hidden |-> hidden,
                           out |-> hidden'])
    /\ IF i < Len(target_line_tensor)
       THEN \E l \in L :
               /\ loss' = loss + l
               /\ h_call' = [h_call EXCEPT
                               !.events = Append(@, Event("forward", i, l))]
               /\ i' = i + 1
               /\ pc' = pc
       ELSE /\ pc' = "IndexError"
            /\ UNCHANGED <<loss, h_call, i>>
    /\ UNCHANGED <<nlp_vars, fs, todo, all_categories, category_lines, n_categories,
                   rnn, iter, all_losses, total_loss, category, line,
                   category_tensor, input_line_tensor, target_line_tensor,
                   input, pidx, output_name, start_letter, tops,
                   h_losses>>

\* loss.backward(); with no timestep loss is still the int 0, which has no backward
\* (the gradient of the loss is one of G)
TrainBackward(G) ==
    /\ pc = "train_loop"
    /\ i = Size0(input_line_tensor)
    /\ IF i = 0
       THEN /\ pc' = "AttributeError"
            /\ UNCHANGED <<rnn, h_call, pidx>>
       ELSE /\ \E g \in G :
                  /\ rnn' = Backward(rnn, g)
                  /\ h_call' = [h_call EXCEPT
                                  !.events = Append(@, Event("backward", 0, 0)),
                                  !.g = g]
            /\ pidx' = 1
            /\ pc' = "train_update"
    /\ UNCHANGED <<nlp_vars, fs, todo, all_categories, category_lines, n_categories,
                   iter, all_losses, total_loss, category, line,
                   category_tensor, input_line_tensor, target_line_tensor,
                   input, hidden, loss, i, output_name, start_letter,
                   fwd, tops, h_losses>>

\* one iteration of: for p in rnn.parameters(): p.data.add_(-learning_rate, p.grad.data)
TrainUpdate ==
    /\ pc = "train_update"
    /\ pidx <= Len(Parameters)
    /\ rnn' = AddScaledGrad(rnn, Parameters[pidx])
    /\ h_call' = [h_call EXCEPT
                    !.events = Append(@, Event("update", pidx, rnn.grad[Parameters[pidx]]))]
    /\ pidx' = pidx + 1
    /\ UNCHANGED <<nlp_vars, fs, pc, todo, all_categories, category_lines, n_categories,
                   iter, all_losses, total_loss, category, line,
                   category_tensor, input_line_tensor, target_line_tensor,
                   input, hidden, loss, i, output_name, start_letter,
                   fwd, tops, h_losses>>

\* all_losses.append(total_loss / plot_every) when iter % plot_every == 0
PlotLosses(losses, total, it) ==
    IF it % plot_every = 0 THEN Append(losses, RatDiv(total, plot_every)) ELSE losses

\* total_loss is never reset
ResetTotal_Never(total, it) == total

\* total_loss = 0 when iter % plot_every == 0
ResetTotal(total, it) == IF it % plot_every = 0 THEN <<0, 1>> ELSE total

\* train with its return inside the parameter loop: it returns after the
\* first parameter
TrainReturn_Early ==
    /\ pc = "train_update"
    /\ pidx > 1
    /\ LET ret == Rat(loss, Size0(input_line_tensor))
           total == RatAdd(total_loss, ret)
       IN  /\ h_losses' = Append(h_losses, ret)
           /\ all_losses' = PlotLosses(all_losses, total, iter)
           /\ total_loss' = ResetTotal(total, iter)
    /\ pc' = "loop"
    /\ UNCHANGED <<nlp_vars, fs, todo, all_categories, category_lines, n_categories,
                   rnn, iter, category, line, category_tensor,
                   input_line_tensor, target_line_tensor, input, hidden,
                   loss, i, pidx, output_name, start_letter, fwd,
                   tops, h_call>>

\* train returns loss.item() / input_line_tensor.size(0); rest of the loop body
TrainReturn ==
    /\ pc = "train_update"
    /\ pidx > Len(Parameters)
    /\ LET ret == Rat(loss, Size0(input_line_tensor))
           total == RatAdd(total_loss, ret)
       IN  /\ h_losses' = Append(h_losses, ret)
           /\ all_losses' = PlotLosses(all_losses, total, iter)
           /\ total_loss' = ResetTotal(total, iter)
    /\ pc' = "loop"
    /\ UNCHANGED <<nlp_vars, fs, todo, all_categories, category_lines, n_categories,
                   rnn, iter, category, line, category_tensor,
                   input_line_tensor, target_line_tensor, input, hidden,
                   loss, i, pidx, output_name, start_letter, fwd,
                   tops, h_call>>

\* loop head with no iteration left: the cell is done
LoopExit ==
    /\ pc = "loop"
    /\ iter = n_iters
    /\ pc' = "trained"
    /\ UNCHANGED <<nlp_vars, fs, todo, all_categories, category_lines, n_categories,
                   rnn, iter, all_losses, total_loss, category, line,
                   category_tensor, input_line_tensor, target_line_tensor,
                   input, hidden, loss, i, pidx, output_name, start_letter, fwd, tops, h_losses, h_call>>

-----------------------------------------------------------------------------
(* Sampling *)

\* topi == n_letters - 1: the network predicts EOS
IsEOS(topi) == topi = n_letters - 1

\* output_name = letter instead of output_name += letter
AppendLetter_Assign(name, topi) == <<all_letters[topi + 1]>>

\* letter = all_letters[topi]; output_name += letter
AppendLetter(name, topi) == Append(name, all_letters[topi + 1])

\* the input is not replaced by the tensor of the new letter
NextInput_Stale(topi) == input

\* input = inputTensor(letter)
NextInput(topi) == inputTensor(<<all_letters[topi + 1]>>)

\* range(max_length + 1)
LoopRuns_OneMore(k) == k <= max_length

\* for i in range(max_length): the loop runs while i < max_length
LoopRuns(k) == k < max_length

\* sample(category, start_letter), up to the loop
SampleCall ==
    /\ pc \in {"trained", "sampled"}
    /\ \E ci \in DOMAIN all_categories, sl \in StartLetters :
          /\ category' = all_categories[ci]
          /\ start_letter' = sl
          /\ category_tensor' = categoryTensor(all_categories[ci])
          /\ input' = inputTensor(<<sl>>)
          /\ output_name' = <<sl>>
    /\ hidden' = initHidden
    /\ i' = 0
    /\ fwd' = <<>>
    /\ tops' = <<>>
    /\ pc' = "sample_loop"
    /\ UNCHANGED <<nlp_vars, fs, todo, all_categories, category_lines, n_categories,
                   rnn, iter, all_losses, total_loss, line,
                   input_line_tensor, target_line_tensor, loss, pidx,
                   h_losses, h_call>>

\* one iteration of: for i in range(max_length)
SampleStep ==
    /\ pc = "sample_loop"
    /\ LoopRuns(i)
    /\ hidden' = ForwardHidden(category_tensor, input[1], hidden)
    /\ fwd' = Append(fwd, [category |-> category_tensor,
                           input |-> input[1],
                           hidden |-> hidden,
                           out |-> hidden'])
    /\ \E topi \in TopChoices(i) :
          /\ tops' = Append(tops, topi)
          /\ IF IsEOS(topi)
             THEN /\ pc' = "sample_break"
                  /\ UNCHANGED <<output_name, input, i>>
             ELSE /\ output_name' = AppendLetter(output_name, topi)
                  /\ input' = NextInput(topi)
                  /\ i' = i + 1
                  /\ pc' = pc
    /\ UNCHANGED <<nlp_vars, fs, todo, all_categories, category_lines, n_categories,
                   rnn, iter, all_losses, total_loss, category, line,
                   category_tensor, input_line_tensor, target_line_tensor,
                   loss, pidx, start_letter, h_losses,
                   h_call>>

\* return output_name (which stays in output_name), after break or after
\* max_length iterations
SampleReturn ==
    /\ \/ pc = "sample_break"
       \/ pc = "sample_loop" /\ ~LoopRuns(i)
    /\ pc' = "sampled"
    /\ UNCHANGED <<nlp_vars, fs, todo, all_categories, category_lines, n_categories,
                   rnn, iter, all_losses, total_loss, category, line,
                   category_tensor, input_line_tensor, target_line_tensor,
                   input, hidden, loss, i, pidx, output_name, start_letter, fwd, tops, h_losses, h_call>>

-----------------------------------------------------------------------------
(* The notebook *)

\* Cells 1 and the training cell, with every draw of the random generator
\* and every outcome of the network
NextTrain ==
    \/ LoadFile
    \/ LoadDone
    \/ StartTraining
    \/ DrawExample(Nat, Nat)
    \/ TrainBegin
    \/ TrainStep(StepLosses)
    \/ TrainBackward(Gradients)
    \/ TrainUpdate
    \/ TrainReturn
    \/ LoopExit

SpecTrain == Init /\ [][NextTrain]_vars

\* The whole notebook.  Training is followed along one draw of the random
\* generator (the first line of the drawn category, loss 0, gradient 1 at
\* every step); sampling is explored for every outcome of the network.
Next ==
    \/ LoadFile
    \/ LoadDone
    \/ StartTraining
    \/ DrawExample(Nat, {1})
    \/ TrainBegin
    \/ TrainStep({0})
    \/ TrainBackward({[p \in ParamSet |-> 1]})
    \/ TrainUpdate
    \/ TrainReturn
    \/ LoopExit
    \/ SampleCall
    \/ SampleStep
    \/ SampleReturn

Spec == Init /\ [][Next]_vars

\* sample is straight-line synchronous code: a call that has started keeps
\* executing its loop and its return
FairSpec == Spec /\ WF_vars(SampleStep) /\ WF_vars(SampleReturn)

\* Loading and the draw of the first training example, for every content
\* of a file
InitLines == InitWith(OneFileListings)

NextLines ==
    \/ LoadFile
    \/ LoadDone
    \/ StartTraining
    \/ DrawExample(Nat, Nat)

SpecLines == InitLines /\ [][NextLines]_vars

-----------------------------------------------------------------------------
(* Properties *)

\* position (0-based) of a letter of the alphabet
LetterIndex(c) == CHOOSE k \in 0..(Len(all_letters) - 1) : all_letters[k + 1] = c

\* the vector of length n that is 1 at 0-based position k and 0 elsewhere
OneHot(n, k) == [j \in 1..n |-> IF j = k + 1 THEN 1 ELSE 0]

EOS == n_letters - 1

\* C1: data loading raises RuntimeError exactly when no file matches
\* (n_categories == 0 after the loop); after the error nothing later has run
\* (no network, no training iteration, no train or sample call), and with
\* files present the check raises nothing.
C1_DataNotFound ==
    /\ (Len(fs) = 0 /\ pc # "load") => pc = "RuntimeError"
    /\ pc = "RuntimeError" =>
          /\ Len(fs) = 0 /\ n_categories = 0
          /\ ~rnn.defined /\ iter = 0 /\ output_name = <<>>
          /\ h_call = NoCall /\ h_losses = <<>> /\ fwd = <<>>
    /\ Len(fs) > 0 => pc # "RuntimeError"

C1_Witness == pc = "RuntimeError" /\ todo = <<>> /\ n_categories = 0

\* C2: for a non-empty line of n letters of all_letters, inputTensor has n
\* timesteps, timestep k the one-hot encoding of letter k, and targetTensor
\* has n entries: the index of letter k+1 for k < n and EOS as the last one.
C2_LetterPairs ==
    (pc = "train" /\ line # <<>>) =>
        LET n == Len(line)
        IN  /\ \A k \in 1..n : line[k] \in Range(all_letters)
            /\ Len(input_line_tensor) = n
            /\ \A k \in 1..n :
                  input_line_tensor[k] = <<OneHot(n_letters, LetterIndex(line[k]))>>
            /\ Len(target_line_tensor) = n
            /\ \A k \in 1..(n - 1) :
                  target_line_tensor[k] = LetterIndex(line[k + 1])
            /\ target_line_tensor[n] = EOS

C2_Witness ==
    /\ pc = "train"
    /\ Len(line) = 3
    /\ line[1] # line[2] /\ line[2] # line[3]

\* C3: for every (category, line) pair drawn from the lines of readLines,
\* input_line_tensor has as many timesteps as target_line_tensor has entries.
C3_OneTargetPerInput ==
    pc = "train" => Size0(input_line_tensor) = Len(target_line_tensor)

\* positions of the notebook inside or right after a call of sample
InSample == pc \in {"sample_loop", "sample_break", "sampled"}

\* positions of the notebook inside or right after a call of train
InTrain == pc \in {"train_loop", "train_update", "IndexError",
                   "AttributeError", "loop"} /\ h_call # NoCall

\* C4: a call of sample performs at most max_length forward steps of the
\* network, whatever the network outputs, and then returns.
C4_SampleTerminates ==
    /\ [](InSample => Len(fwd) <= max_length)
    /\ (pc = "sample_loop") ~> (pc = "sampled")

C4_Witness == pc = "sampled" /\ Len(fwd) = max_length

\* 1-based step of the first EOS prediction, Len(t) + 1 when there is none
FirstEOS(t) ==
    IF \E k \in DOMAIN t : t[k] = EOS
    THEN CHOOSE k \in DOMAIN t : t[k] = EOS /\ \A j \in 1..(k - 1) : t[j] # EOS
    ELSE Len(t) + 1

\* C5: sample stops at the first step that predicts EOS: the name is
\* start_letter followed by the predicted letters of the steps before that
\* step, in order; EOS is never appended and no step follows the EOS step.
C5_StopsAtFirstEOS ==
    InSample =>
        LET k == FirstEOS(tops)
        IN  /\ output_name =
                  <<start_letter>> \o [j \in 1..(k - 1) |-> all_letters[tops[j] + 1]]
            /\ \A j \in DOMAIN output_name : output_name[j] \in Range(all_letters)
            /\ Len(fwd) = Len(tops)
            /\ k >= Len(tops)
            /\ k = Len(tops) => pc \in {"sample_break", "sampled"}
            /\ pc = "sample_break" => k = Len(tops)

C5_Witness ==
    /\ pc = "sampled"
    /\ Len(tops) >= 3
    /\ tops[Len(tops)] = EOS
    /\ tops[1] # tops[2]

\* C6: the name returned by sample has at most max_length letters.
C6_NameWithinMaxLength == pc = "sampled" => Len(output_name) <= max_length

\* C7: the first step of sample feeds the encoding of start_letter, every
\* later step the encoding of the letter appended in the preceding step.
C7_OutputFedBack ==
    InSample =>
        /\ Len(fwd) <= Len(output_name)
        /\ output_name[1] = start_letter
        /\ \A k \in DOMAIN fwd :
              fwd[k].input = <<OneHot(n_letters, LetterIndex(output_name[k]))>>

C7_Witness ==
    /\ InSample
    /\ Len(fwd) >= 3
    /\ output_name[1] # output_name[2]
    /\ output_name[2] # output_name[3]

\* C8: the category tensor is the 1 x n_categories one-hot tensor of the
\* position of the category in all_categories, and every timestep of a train
\* call or of a sample call is fed that same tensor.
C8_CategoryOneHot ==
    (InTrain \/ InSample \/ pc = "train") =>
        /\ Len(category_tensor) = 1
        /\ Len(category_tensor[1]) = n_categories
        /\ \E k \in 1..n_categories :
              /\ all_categories[k] = category
              /\ \A j \in 1..n_categories :
                    category_tensor[1][j] = IF j = k THEN 1 ELSE 0
        /\ pc # "train" => \A k \in DOMAIN fwd : fwd[k].category = category_tensor

C8_Witness ==
    /\ pc = "train_update"
    /\ Len(fwd) = 2
    /\ n_categories = 2
    /\ category = all_categories[2]

\* the operations of one complete call of train on n timesteps, in order
TrainOrder(n) ==
    <<<<"zero_grad", 0>>>>
    \o [k \in 1..n |-> <<"forward", k - 1>>]
    \o <<<<"backward", 0>>>>
    \o [k \in 1..Len(Parameters) |-> <<"update", k>>]

IsPrefix(a, b) == Len(a) <= Len(b) /\ a = SubSeq(b, 1, Len(a))

RECURSIVE SumVals(_)
SumVals(ev) ==
    IF ev = <<>> THEN 0
    ELSE (IF Head(ev).op = "forward" THEN Head(ev).val ELSE 0) + SumVals(Tail(ev))

C10_AverageLossPerPlot ==
    LET k == Len(h_losses)
    IN  /\ pc \in {"loop", "trained"} => iter = k
        /\ k <= n_iters
        /\ Len(all_losses) = k \div plot_every
        /\ \A j \in DOMAIN all_losses :
              all_losses[j] =
                  RatDiv(RatSum(SubSeq(h_losses, (j - 1) * plot_every + 1,
                                       j * plot_every)), plot_every)
        /\ total_loss = RatSum(SubSeq(h_losses, k - (k % plot_every) + 1, k))

C10_Witness ==
    /\ Len(h_losses) = 3
    /\ Len(all_losses) = 1
    /\ all_losses[1] # <<0, 1>>
    /\ total_loss # <<0, 1>>
    /\ total_loss # all_losses[1]

\* C11: every call of train and of sample starts from the all-zero hidden
\* state, the hidden state passed to a timestep is the one the preceding
\* timestep of the same call returned, and the variable hidden holds the one
\* the last timestep returned; nothing of an earlier call enters a call.
C11_HiddenWithinCall ==
    ((InTrain /\ pc # "loop") \/ InSample) =>
        /\ fwd = <<>> => hidden = <<>>
        /\ fwd # <<>> =>
              /\ fwd[1].hidden = <<>>
              /\ hidden = fwd[Len(fwd)].out
        /\ \A k \in 1..(Len(fwd) - 1) : fwd[k + 1].hidden = fwd[k].out
        /\ \A k \in DOMAIN fwd :
              /\ Len(fwd[k].out) = k
              /\ fwd[k].out[k] = <<Hot(fwd[k].category), Hot(fwd[k].input)>>

C11_Witness ==
    /\ pc = "train_loop"
    /\ iter = 2
    /\ Len(fwd) = 2

\* C15: execution is synchronous: an example is drawn and a call of train
\* starts only between calls; when the next example is drawn, and until the
\* next call starts, every parameter update of the preceding call has been
\* applied; the parameters change only in the update loop of train.
C15_Synchronous ==
    /\ []((pc \in {"loop", "train"} /\ h_call # NoCall) =>
            /\ \A k \in DOMAIN Parameters :
                  \E e \in DOMAIN h_call.events :
                     h_call.events[e].op = "update" /\ h_call.events[e].arg = k
            /\ \A k \in DOMAIN Parameters :
                  rnn.params[Parameters[k]] =
                      h_call.params0[Parameters[k]]
                      - learning_rate.num * h_call.g[Parameters[k]])
    /\ [][rnn.params' # rnn.params => (pc = "train_update" /\ pc' = "train_update")]_vars
    /\ [][iter' # iter => (pc = "loop" /\ pc' = "train" /\ iter' = iter + 1)]_vars
    /\ [][(pc' = "train_loop" /\ pc # "train_loop") => pc = "train"]_vars
    /\ [][(pc' = "train" /\ pc # "train") => pc = "loop"]_vars

C15_Witness ==
    /\ pc = "train"
    /\ iter = 3
    /\ rnn.params["i2h.weight"] = -10

\* C16: after the loading loop the keys of category_lines are the elements
\* of all_categories, all_categories has one entry per matched file, the
\* basename of the file without its extension, with no duplicate,
\* n_categories is its length and the number of keys; training and sampling
\* change none of them.
C16_GroupedByLanguage ==
    /\ [](pc # "load" =>
            /\ DOMAIN category_lines = Range(all_categories)
            /\ Len(all_categories) = Len(fs)
            /\ \A k \in DOMAIN fs :
                  all_categories[k] =
                      SubSeq(fs[k][1], Len(NamesDir) + 1, Len(fs[k][1]) - 2)
            /\ \A j, k \in DOMAIN all_categories :
                  j # k => all_categories[j] # all_categories[k]
            /\ n_categories = Len(all_categories)
            /\ n_categories = Cardinality(DOMAIN category_lines))
    /\ [][pc # "load" =>
            /\ all_categories' = all_categories
            /\ category_lines' = category_lines
            /\ n_categories' = n_categories]_vars

C16_Witness ==
    /\ pc = "sampled"
    /\ n_categories = 2
    /\ all_categories[2] = <<"St", ".", "Lucian">>


\* ------------------------------------------------------------------------
\* Text/14.NLP/sequence_models_tutorial.ipynb: the part-of-speech tagger
\* ------------------------------------------------------------------------

\* for epoch in range(300); scaled down
n_epochs == 2

\* sizes of the data sets tried besides the one of the notebook
MaxSents == 2
MaxWords == 2

\* "The dog ate the apple".split() and "Everybody read that book".split(),
\* with their tags
NotebookData ==
    << << <<"The", "dog", "ate", "the", "apple">>,
          <<"DET", "NN", "V", "DET", "NN">> >>,
       << <<"Everybody", "read", "that", "book">>,
          <<"NN", "V", "DET", "NN">> >> >>

\* other data sets of the same shape: words repeat, inside a sentence and
\* across sentences, and two of them differ in case only
Words == {"The", "the"}

TagOf(w) == "DET"

Sentences == UNION {[1..n -> Words] : n \in 1..MaxWords}

Tagged(sentence) == <<sentence, [k \in DOMAIN sentence |-> TagOf(sentence[k])]>>

TrainingSets ==
    {NotebookData} \cup
    UNION {[1..n -> {Tagged(st) : st \in Sentences}] : n \in 1..MaxSents}

tag_to_ix == [t \in {"DET", "NN", "V"} |->
                 IF t = "DET" THEN 0 ELSE IF t = "NN" THEN 1 ELSE 2]

\* len(d) of a dict
DictLen(d) == Cardinality(DOMAIN d)

\* the body of the vocabulary loop, with the mapping always overwritten
AssignIndex_Always(d, word) ==
    [x \in DOMAIN d \cup {word} |-> IF x = word THEN DictLen(d) ELSE d[x]]

\* if word not in word_to_ix: word_to_ix[word] = len(word_to_ix)
AssignIndex(d, word) ==
    IF word \notin DOMAIN d
    THEN [x \in DOMAIN d \cup {word} |-> IF x = word THEN DictLen(d) ELSE d[x]]
    ELSE d

\* idxs = [to_ix[w] for w in seq]
prepare_sequence(seq, to_ix) == [k \in DOMAIN seq |-> to_ix[seq[k]]]

\* (zeros, zeros): no input consumed yet
init_hidden == <<>>

\* LSTMTagger.forward: an embedding exists for the indexes below vocab_size
\* only; the LSTM continues from self.hidden and leaves its last state
\* there; the scores are a function of the inputs, the state and the
\* parameters
CanEmbed(mdl, sentence) == \A k \in DOMAIN sentence : sentence[k] < mdl.vocab_size

forward(mdl, sentence) ==
    [hidden |-> mdl.hidden \o sentence,
     tag_scores |-> [k \in DOMAIN sentence |->
                        [at |-> mdl.hidden \o SubSeq(sentence, 1, k),
                         params |-> mdl.params]]]

\* word_to_ix = {}
StartVocab ==
    /\ pc2 = "start"
    /\ training_data # <<>>
    /\ word_to_ix' = NoLines
    /\ sent_i' = 1
    /\ word_i' = 1
    /\ pc2' = "vocab"
    /\ UNCHANGED <<gen_vars, training_data, model, epoch, pair_i, tag_scores,
                   lstm_inputs, lstm_hidden, lstm_out, step_i, h_pairs,
                   h_steps, h_outs, h_init>>

\* for sent, tags in training_data: for word in sent: one word
VocabWord ==
    /\ pc2 = "vocab"
    /\ sent_i <= Len(training_data)
    /\ LET sent == training_data[sent_i][1]
       IN /\ word_to_ix' = AssignIndex(word_to_ix, sent[word_i])
          /\ IF word_i < Len(sent)
             THEN /\ word_i' = word_i + 1
                  /\ sent_i' = sent_i
             ELSE /\ word_i' = 1
                  /\ sent_i' = sent_i + 1
    /\ UNCHANGED <<gen_vars, pc2, training_data, model, epoch, pair_i,
                   tag_scores, lstm_inputs, lstm_hidden, lstm_out, step_i,
                   h_pairs, h_steps, h_outs, h_init>>

\* the vocabulary loop is over; model = LSTMTagger(EMBEDDING_DIM,
\* HIDDEN_DIM, len(word_to_ix), len(tag_to_ix)), its loss and optimizer
CreateModel ==
    /\ pc2 = "vocab"
    /\ sent_i > Len(training_data)
    /\ model' = [defined |-> TRUE,
                 vocab_size |-> DictLen(word_to_ix),
                 tagset_size |-> DictLen(tag_to_ix),
                 hidden |-> init_hidden,
                 params |-> 0,
                 grad |-> 0]
    /\ pc2' = "scores_before"
    /\ UNCHANGED <<gen_vars, training_data, word_to_ix, sent_i, word_i, epoch,
                   pair_i, tag_scores, lstm_inputs, lstm_hidden, lstm_out,
                   step_i, h_pairs, h_steps, h_outs, h_init>>

\* with torch.no_grad(): inputs = prepare_sequence(training_data[0][0],
\* word_to_ix); tag_scores = model(inputs) -- before and after training
Scores ==
    /\ pc2 \in {"scores_before", "scores_after"}
    /\ LET inputs == prepare_sequence(training_data[1][1], word_to_ix)
       IN IF CanEmbed(model, inputs)
          THEN /\ tag_scores' = forward(model, inputs).tag_scores
               /\ model' = [model EXCEPT !.hidden = forward(model, inputs).hidden]
               /\ pc2' = IF pc2 = "scores_before" THEN "epochs" ELSE "done"
          ELSE /\ pc2' = "IndexError"
               /\ UNCHANGED <<tag_scores, model>>
    /\ epoch' = 0
    /\ pair_i' = 1
    /\ UNCHANGED <<gen_vars, training_data, word_to_ix, sent_i, word_i,
                   lstm_inputs, lstm_hidden, lstm_out, step_i, h_pairs,
                   h_steps, h_outs, h_init>>

\* the pair the loops run after pair p of epoch e, the inner loop not
\* started again in the next epoch
NextPair_NoRestart(e, p) ==
    IF p < Len(training_data) THEN <<e, p + 1>> ELSE <<e + 1, p>>

\* for epoch in range(300): for sentence, tags in training_data: the pair
\* the loops run after pair p of epoch e
NextPair(e, p) ==
    IF p < Len(training_data) THEN <<e, p + 1>> ELSE <<e + 1, 1>>

\* the loop body up to the loss: model.zero_grad(); model.hidden =
\* model.init_hidden(); sentence_in, targets; tag_scores =
\* model(sentence_in); loss = loss_function(tag_scores, targets)
TaggerForward ==
    /\ pc2 = "epochs"
    /\ epoch < n_epochs
    /\ LET sentence == training_data[pair_i][1]
           tags == training_data[pair_i][2]
           sentence_in == prepare_sequence(sentence, word_to_ix)
           targets == prepare_sequence(tags, tag_to_ix)
           cleared == [model EXCEPT !.grad = 0, !.hidden = init_hidden]
       IN IF CanEmbed(cleared, sentence_in)
          THEN /\ tag_scores' = forward(cleared, sentence_in).tag_scores
               /\ model' = [cleared EXCEPT
                               !.hidden = forward(cleared, sentence_in).hidden]
               /\ h_pairs' = Append(h_pairs,
                                    [epoch |-> epoch, sentence |-> sentence,
                                     tags |-> tags, targets |-> targets])
               /\ pc2' = "step"
          ELSE /\ pc2' = "IndexError"
               /\ model' = cleared
               /\ UNCHANGED <<tag_scores, h_pairs>>
    /\ UNCHANGED <<gen_vars, training_data, word_to_ix, sent_i, word_i, epoch,
                   pair_i, lstm_inputs, lstm_hidden, lstm_out, step_i,
                   h_steps, h_outs, h_init>>

\* the rest of the loop body: loss.backward(); optimizer.step(); then the
\* loops move on
TaggerStep ==
    /\ pc2 = "step"
    /\ model' = [model EXCEPT !.grad = model.grad + 1,
                              !.params = model.params - (model.grad + 1)]
    /\ h_steps' = Append(h_steps, <<epoch, pair_i>>)
    /\ epoch' = NextPair(epoch, pair_i)[1]
    /\ pair_i' = NextPair(epoch, pair_i)[2]
    /\ pc2' = "epochs"
    /\ UNCHANGED <<gen_vars, training_data, word_to_ix, sent_i, word_i,
                   tag_scores, lstm_inputs, lstm_hidden, lstm_out, step_i,
                   h_pairs, h_outs, h_init>>

\* range(300) is exhausted
EpochsDone ==
    /\ pc2 = "epochs"
    /\ epoch >= n_epochs
    /\ pc2' = "scores_after"
    /\ UNCHANGED <<gen_vars, training_data, word_to_ix, sent_i, word_i, model,
                   epoch, pair_i, tag_scores, lstm_inputs, lstm_hidden,
                   lstm_out, step_i, h_pairs, h_steps, h_outs, h_init>>

InitTagger ==
    /\ GenStart({<<>>})
    /\ NlpStart
    /\ training_data \in TrainingSets
    /\ lstm_inputs = <<>>

NextTagger ==
    \/ StartVocab
    \/ VocabWord
    \/ CreateModel
    \/ Scores
    \/ TaggerForward
    \/ TaggerStep
    \/ EpochsDone

SpecTagger == InitTagger /\ [][NextTagger]_vars

\* the words of the first n sentences of the data, one after another
RECURSIVE WordsOf(_, _)
WordsOf(data, n) ==
    IF n = 0 THEN <<>> ELSE WordsOf(data, n - 1) \o data[n][1]

\* the words the vocabulary loop has read so far
WordsRead ==
    IF pc2 = "start" THEN <<>>
    ELSE IF pc2 = "vocab" /\ sent_i <= Len(training_data)
    THEN WordsOf(training_data, sent_i - 1) \o
             SubSeq(training_data[sent_i][1], 1, word_i - 1)
    ELSE WordsOf(training_data, Len(training_data))

\* position of the first occurrence of word w in ws
FirstAt(ws, w) == CHOOSE k \in DOMAIN ws :
                      ws[k] = w /\ \A j \in 1..(k - 1) : ws[j] # w

\* C12: word_to_ix maps exactly the words read so far; a word's index is the
\* number of distinct words that precede its first occurrence (compared by
\* exact spelling), so the indexes are 0..len-1 without gap or repetition;
\* an index once assigned never changes; and every index the model is
\* given is below the vocab_size it was built with.
C12_VocabularyIndex ==
    /\ [](/\ DOMAIN word_to_ix = Range(WordsRead)
          /\ \A w \in DOMAIN word_to_ix :
                 word_to_ix[w] =
                     Cardinality(Range(SubSeq(WordsRead, 1,
                                              FirstAt(WordsRead, w) - 1)))
          /\ {word_to_ix[w] : w \in DOMAIN word_to_ix} =
                 0..(DictLen(word_to_ix) - 1)
          /\ \A v, w \in DOMAIN word_to_ix :
                 word_to_ix[v] = word_to_ix[w] => v = w
          /\ model.defined =>
                 /\ model.vocab_size = DictLen(word_to_ix)
                 /\ \A w \in DOMAIN word_to_ix : word_to_ix[w] < model.vocab_size
          /\ pc2 # "IndexError")
    /\ [][\A w \in DOMAIN word_to_ix :
              w \in DOMAIN word_to_ix' /\ word_to_ix'[w] = word_to_ix[w]]_vars

\* the notebook's data after training: nine words, "The" and "the" apart,
\* the second "the" of the first sentence read without a new index
C12_Witness ==
    /\ pc2 = "done"
    /\ training_data = NotebookData
    /\ word_to_ix["The"] = 0
    /\ word_to_ix["the"] = 3
    /\ word_to_ix["apple"] = 4
    /\ word_to_ix["book"] = 8
    /\ DictLen(word_to_ix) = 9

\* what n_epochs full passes in list order are: the epoch and the pair of
\* the n-th loop body
Schedule ==
    [n \in 1..(n_epochs * Len(training_data)) |->
        <<(n - 1) \div Len(training_data), ((n - 1) % Len(training_data)) + 1>>]

\* C13: the loop bodies of the tagger's training run in the order of
\* n_epochs full passes over training_data: every pair once per epoch, in
\* list order; optimizer.step is called once for each pair a forward pass
\* was run on, before the next pair is taken; and when the loop is left
\* n_epochs * len(training_data) steps have been made.
C13_EpochIsFullPass ==
    /\ IsPrefix(h_steps, Schedule)
    /\ Len(h_pairs) = Len(h_steps) + (IF pc2 = "step" THEN 1 ELSE 0)
    /\ Len(h_pairs) <= Len(Schedule)
    /\ \A n \in DOMAIN h_pairs :
           /\ h_pairs[n].epoch = Schedule[n][1]
           /\ h_pairs[n].sentence = training_data[Schedule[n][2]][1]
           /\ h_pairs[n].tags = training_data[Schedule[n][2]][2]
    /\ \A e \in 0..(epoch - 1) : \A p \in DOMAIN training_data :
           Cardinality({n \in DOMAIN h_steps : h_steps[n] = <<e, p>>}) = 1
    /\ model.params = - Len(h_steps)
    /\ pc2 \in {"scores_after", "done"} =>
           Len(h_steps) = n_epochs * Len(training_data)

\* the notebook's two sentences after training: the second epoch began
\* with the first sentence again
C13_Witness ==
    /\ pc2 = "done"
    /\ training_data = NotebookData
    /\ Len(h_steps) = n_epochs * 2
    /\ h_steps[2] = <<0, 2>>
    /\ h_steps[3] = <<1, 1>>

\* ------------------------------------------------------------------------
\* Text/14.NLP/sequence_models_tutorial.ipynb: the LSTM example
\* ------------------------------------------------------------------------

\* inputs = [torch.randn(1, 3) for _ in range(5)]
SeqLen == 5

\* torch.randn: a tensor is known by the draw that made it; two draws may
\* give the same tensor
Randn == {[f |-> "randn", id |-> "r1"], [f |-> "randn", id |-> "r2"]}

\* (torch.randn(1, 1, 3), torch.randn(1, 1, 3))
RandnHidden == Randn \X Randn

\* one timestep of lstm = nn.LSTM(3, 3): the new hidden and cell state are
\* functions of the element and of the state before it, left uninterpreted
LSTMCell(x, hc) ==
    <<[f |-> "h", x |-> x, h |-> hc[1], c |-> hc[2]],
      [f |-> "c", x |-> x, h |-> hc[1], c |-> hc[2]]>>

\* lstm(inputs, hidden): the elements are consumed in order; the first
\* value returned is the hidden state after every element, the second the
\* state after the last one
RECURSIVE lstm(_, _)
lstm(inputs, hc) ==
    IF inputs = <<>> THEN <<<<>>, hc>>
    ELSE LET first == LSTMCell(Head(inputs), hc)
             rest == lstm(Tail(inputs), first)
         IN <<<<first[1]>> \o rest[1], rest[2]>>

\* hidden = (torch.randn(1, 1, 3), torch.randn(1, 1, 3)) before the loop
StepInit ==
    /\ pc2 = "start"
    /\ lstm_inputs # <<>>
    /\ lstm_hidden' \in RandnHidden
    /\ h_init' = <<lstm_hidden'>>
    /\ step_i' = 1
    /\ pc2' = "lstm_steps"
    /\ UNCHANGED <<gen_vars, training_data, word_to_ix, sent_i, word_i, model,
                   epoch, pair_i, tag_scores, lstm_inputs, lstm_out, h_pairs,
                   h_steps, h_outs>>

\* one element of the loop, the returned hidden dropped
LstmStep_NoThread ==
    /\ pc2 = "lstm_steps"
    /\ step_i <= Len(lstm_inputs)
    /\ LET r == lstm(<<lstm_inputs[step_i]>>, lstm_hidden)
       IN /\ lstm_out' = r[1]
          /\ lstm_hidden' = lstm_hidden
          /\ h_outs' = Append(h_outs, r[1])
    /\ step_i' = step_i + 1
    /\ UNCHANGED <<gen_vars, pc2, training_data, word_to_ix, sent_i, word_i,
                   model, epoch, pair_i, tag_scores, lstm_inputs, h_pairs,
                   h_steps, h_init>>

\* for i in inputs: out, hidden = lstm(i.view(1, 1, -1), hidden)
LstmStep ==
    /\ pc2 = "lstm_steps"
    /\ step_i <= Len(lstm_inputs)
    /\ LET r == lstm(<<lstm_inputs[step_i]>>, lstm_hidden)
       IN /\ lstm_out' = r[1]
          /\ lstm_hidden' = r[2]
          /\ h_outs' = Append(h_outs, r[1])
    /\ step_i' = step_i + 1
    /\ UNCHANGED <<gen_vars, pc2, training_data, word_to_ix, sent_i, word_i,
                   model, epoch, pair_i, tag_scores, lstm_inputs, h_pairs,
                   h_steps, h_init>>

\* inputs = torch.cat(inputs).view(len(inputs), 1, -1); hidden = (randn,
\* randn); out, hidden = lstm(inputs, hidden)
WholeSequence ==
    /\ pc2 = "lstm_steps"
    /\ step_i > Len(lstm_inputs)
    /\ \E clean \in RandnHidden :
           /\ lstm_out' = lstm(lstm_inputs, clean)[1]
           /\ lstm_hidden' = lstm(lstm_inputs, clean)[2]
           /\ h_init' = Append(h_init, clean)
    /\ pc2' = "lstm_done"
    /\ UNCHANGED <<gen_vars, training_data, word_to_ix, sent_i, word_i, model,
                   epoch, pair_i, tag_scores, lstm_inputs, step_i, h_pairs,
                   h_steps, h_outs>>

InitLSTM ==
    /\ GenStart({<<>>})
    /\ NlpStart
    /\ training_data = <<>>
    /\ lstm_inputs \in [1..SeqLen -> Randn]

NextLSTM ==
    \/ StepInit
    \/ LstmStep
    \/ WholeSequence

SpecLSTM == InitLSTM /\ [][NextLSTM]_vars

====
